---- MODULE Spec2Model ----
(***************************************************************************)
(* Polymarket BTC 5-Min Trader (btc5m_trader.py): market discovery, the    *)
(* order-book walk with its slippage policy, and the control flow of run().*)
(*                                                                         *)
(* Numbers.  The program computes in binary floating point.  A float is    *)
(* modelled as an integer count of units of 2^-FracBits, and every         *)
(* arithmetic result is rounded to nearest (ties to even) at MantBits      *)
(* significant bits, the way binary64 rounds at 53.  Decimal results of    *)
(* round(x, k) are integer counts of 10^-k.                                *)
(***************************************************************************)
EXTENDS Integers, Sequences, FiniteSets, TLC

\* Width of the significand of the modelled floating-point format.
MantBits == 7
\* The format's finest spacing is 2^-FracBits.
FracBits == 12
\* Longest ask ladder drawn as an input.
MaxLevels == 3

Unit == 2 ^ FracBits

Abs(x) == IF x < 0 THEN -x ELSE x

Sign(x) == IF x < 0 THEN -1 ELSE 1

RECURSIVE BitLen(_)
BitLen(x) == IF x = 0 THEN 0 ELSE 1 + BitLen(x \div 2)

\* n/d (n >= 0, d > 0) rounded to the nearest integer, ties to even.
RoundHalfEven(n, d) ==
    LET k == n \div d
        r == n % d
    IN  IF 2 * r > d \/ (2 * r = d /\ k % 2 = 1) THEN k + 1 ELSE k

\* Signed version: Python's round() and IEEE rounding are symmetric in sign.
RoundHalfEvenS(n, d) == Sign(n) * Sign(d) * RoundHalfEven(Abs(n), Abs(d))

\* The float nearest to the rational n/d units (n >= 0, d > 0).
RoundRat(n, d) ==
    LET q == n \div d
        g == 2 ^ (IF BitLen(q) > MantBits THEN BitLen(q) - MantBits ELSE 0)
    IN  g * RoundHalfEven(n, d * g)

\* The float nearest to x units.
Fl(x) == Sign(x) * RoundRat(Abs(x), 1)

\* a + b, a - b, a * b and a / b of Python floats.
FAdd(a, b) == Fl(a + b)

FSub(a, b) == Fl(a - b)

\* (a whole-number factor is divided out first: the value is the same)
FMul(a, b) ==
    Sign(a) * Sign(b) *
        (IF Abs(b) % Unit = 0 THEN RoundRat(Abs(a) * (Abs(b) \div Unit), 1)
         ELSE IF Abs(a) % Unit = 0 THEN RoundRat((Abs(a) \div Unit) * Abs(b), 1)
         ELSE RoundRat(Abs(a) * Abs(b), Unit))

FDiv(a, b) == Sign(a) * Sign(b) * RoundRat(Abs(a) * Unit, Abs(b))

\* round(x, k) of a float x, as a count of 10^-k (10^k / 2^FracBits is
\* reduced by 2^k).
RoundDec(x, k) == RoundHalfEvenS(x * (5 ^ k), Unit \div (2 ^ k))

\* Python's None and a present value.
None == << >>

Some(v) == << v >>

\* Truthiness of an optional float: None and 0.0 are false.
Truthy(o) == o # None /\ o[1] # 0

\* order.get(key, default)
Get(order, key, default) == IF key \in DOMAIN order THEN order[key] ELSE default

(***************************************************************************)
(* Phase 2 - order book                                                    *)
(***************************************************************************)

\* The sort key of walk_book: float(x.get("price", 1)).
SortKey(order) == Get(order, "price", Unit)

\* One step of the stable ascending sort: x goes after every element whose
\* key is not larger than its own.
RECURSIVE InsertByKey(_, _)
InsertByKey(s, x) ==
    IF s = << >> THEN << x >>
    ELSE IF SortKey(s[Len(s)]) <= SortKey(x) THEN Append(s, x)
    ELSE Append(InsertByKey(SubSeq(s, 1, Len(s) - 1), x), s[Len(s)])

RECURSIVE SortedFrom(_, _, _)
SortedFrom(asks, i, acc) ==
    IF i > Len(asks) THEN acc
    ELSE SortedFrom(asks, i + 1, InsertByKey(acc, asks[i]))

\* Mutant of sorted: the levels are walked in the order given.
sorted_AsGiven(asks) == asks

\* sorted(asks, key=lambda x: float(x.get("price", 1)))
sorted(asks) == SortedFrom(asks, 1, << >>)

\* Mutant of PartialFill: the remaining budget is spent but not added to
\* the cost.
PartialFill_CostNotAdded(total_shares, total_cost, remaining, price) ==
    << FAdd(total_shares, FDiv(remaining, price)), total_cost >>

\* The else branch of the loop: the level costs more than what remains.
PartialFill(total_shares, total_cost, remaining, price) ==
    << FAdd(total_shares, FDiv(remaining, price)), FAdd(total_cost, remaining) >>

\* The loop of walk_book over the sorted levels, from level i on.
RECURSIVE WalkLoop(_, _, _, _, _)
WalkLoop(levels, i, total_shares, total_cost, remaining) ==
    IF i > Len(levels) THEN << total_shares, total_cost >>
    ELSE LET price == Get(levels[i], "price", 0)
             size  == Get(levels[i], "size", 0)
             level_cost == FMul(price, size)
         IN  IF price <= 0 \/ size <= 0
             THEN WalkLoop(levels, i + 1, total_shares, total_cost, remaining)
             ELSE IF level_cost <= remaining
             THEN WalkLoop(levels, i + 1, FAdd(total_shares, size),
                           FAdd(total_cost, level_cost),
                           FSub(remaining, level_cost))
             ELSE PartialFill(total_shares, total_cost, remaining, price)

\* walk_book(asks, usdc_budget) = (total_shares, total_cost)
walk_book(asks, usdc_budget) == WalkLoop(sorted(asks), 1, 0, 0, usdc_budget)

(***************************************************************************)
(* Phase 1 - discovery                                                     *)
(***************************************************************************)

\* a or b on strings: the empty string is false.
OrStr(a, b) == IF a # "" THEN a ELSE b

\* Titles whose lower-cased text contains SEARCH_STR, "bitcoin price 5".
MatchingTexts == { "Bitcoin Price 5 Min Up or Down", "BITCOIN PRICE 5-minute" }

\* m.get("question") or m.get("title") or ""
TitleOf(m) == OrStr(Get(m, "question", ""), Get(m, "title", ""))

\* SEARCH_STR in (...).lower()
IsMatch(m) == TitleOf(m) \in MatchingTexts

\* end_ts(m): the end timestamp, None standing for float("inf") (no endDate,
\* or one fromisoformat cannot parse).
end_ts(m) == Get(m, "endDate", None)

\* a < b on end timestamps.
EarlierThan(a, b) == a # None /\ (b = None \/ a[1] < b[1])

\* matches.sort(key=end_ts); m = matches[0]: the first of the entries with
\* the least key (the sort is stable).
Soonest(matches) ==
    LET i == CHOOSE k \in 1..Len(matches) :
                 /\ \A j \in 1..Len(matches) : ~EarlierThan(end_ts(matches[j]), end_ts(matches[k]))
                 /\ \A j \in 1..(k - 1) : EarlierThan(end_ts(matches[k]), end_ts(matches[j]))
    IN  matches[i]

\* The clobTokenIds field: a list, or a string holding JSON.  An absent field,
\* an empty list and a string json.loads rejects all give [].
StructuredIds(m) ==
    LET raw == Get(m, "clobTokenIds", [form |-> "list", v |-> << >>])
    IN  IF raw.form \in {"list", "json_list"} THEN raw.v ELSE << >>

\* [o.get("clobTokenId", "") for o in outcomes]
OutcomeIds(m) ==
    LET outcomes == Get(m, "outcomes", << >>)
    IN  [i \in 1..Len(outcomes) |-> Get(outcomes[i], "clobTokenId", "")]

\* The ids discover() ends up with: the structured list, or the per-outcome
\* fallback when that list has fewer than two entries.
TokenIds(m) == IF Len(StructuredIds(m)) < 2 THEN OutcomeIds(m) ELSE StructuredIds(m)

\* The test before "Could not extract tokenIDs from market data".
IdsRejected(ids) == Len(ids) < 2 \/ ids[1] = ""

\* secs of discover(): max(0, int(end - now)), or 999 without a parseable end.
SecondsRemaining(m, t) ==
    IF end_ts(m) = None THEN 999
    ELSE IF end_ts(m)[1] - t > 0 THEN end_ts(m)[1] - t ELSE 0

\* discover(), given the listing the Gamma API returned and the clock.
\* (the answer is [error |-> e] for a JSON object, [list |-> l] for a list)
discover(answer, t) ==
    IF "error" \in DOMAIN answer
    THEN IF answer.error # ""
         THEN [kind |-> "err", err |-> "Gamma API error"]
         ELSE [kind |-> "raise", err |-> "AttributeError"]
    ELSE
    LET matches == SelectSeq(answer.list, IsMatch)
    IN  IF matches = << >>
        THEN [kind |-> "err", err |-> "No active Bitcoin 5-Min market found"]
        ELSE
        LET m   == Soonest(matches)
            raw == Get(m, "clobTokenIds", [form |-> "list", v |-> << >>])
            ids == TokenIds(m)
        IN  IF raw.form = "json_number"
            THEN [kind |-> "raise", err |-> "TypeError"]
            ELSE IF IdsRejected(ids)
            THEN [kind |-> "err", err |-> "Could not extract tokenIDs from market data"]
            ELSE [kind |-> "ok",
                  title |-> TitleOf(m),
                  yes_token |-> ids[1],
                  no_token |-> ids[2],
                  end_time |-> IF end_ts(m) = None THEN "unknown" ELSE "UTC",
                  seconds_remaining |-> SecondsRemaining(m, t),
                  liquidity |-> Get(m, "liquidity", 0)]

VARIABLES
    args,      \* the parsed command line
    cfg,       \* the module-level configuration (load_config)
    pc,        \* where run() stands
    calls,     \* the external calls made so far, in order
    listing,   \* the Gamma API's answer to the listings query
    now,       \* the clock read by discover()
    market,    \* what discover() returned
    book,      \* the CLOB's answer to the book query
    usdc,      \* the notional handed to analyze_book / walk_book
    walked,    \* what walk_book returned
    est,       \* what analyze_book returned
    outcome    \* how the run ended

vars == << args, cfg, pc, calls, listing, now, market, book, usdc, walked, est, outcome >>

\* The literal 0.99 as a float.
F099 == RoundRat(99 * Unit, 100)

\* o["price"] / o["size"] raise KeyError on a level without the key.
Subscriptable(levels, key) == \A i \in 1..Len(levels) : key \in DOMAIN levels[i]

RECURSIVE DepthFrom(_, _, _)
DepthFrom(asks, i, acc) ==
    IF i > Len(asks) THEN acc
    ELSE DepthFrom(asks, i + 1, FAdd(acc, FMul(asks[i].price, asks[i].size)))

\* sum(float(o["price"]) * float(o["size"]) for o in asks)
AskDepth(asks) == DepthFrom(asks, 1, 0)

\* The slippage lines of analyze_book; the result counts hundredths of a percent.
Slippage(best_ask, avg_price) ==
    IF Truthy(best_ask) /\ Truthy(avg_price)
    THEN RoundDec(FMul(FDiv(FSub(avg_price[1], best_ask[1]), best_ask[1]),
                       100 * Unit), 2)
    ELSE 0

\* Mutant of Warnings: the block comparison is >= instead of >.
Warnings_BlockAtThreshold(slippage, cost, usdc_size) ==
    (IF slippage >= cfg.slippage_block THEN << "BLOCKED" >>
     ELSE IF slippage > cfg.slippage_warn THEN << "High slippage" >>
     ELSE << >>)
    \o (IF cost < FMul(usdc_size, F099) THEN << "Insufficient liquidity" >>
        ELSE << >>)

\* Mutant of Warnings: the liquidity test is one more elif of the slippage
\* chain.
Warnings_LiquidityInChain(slippage, cost, usdc_size) ==
    IF slippage > cfg.slippage_block THEN << "BLOCKED" >>
    ELSE IF slippage > cfg.slippage_warn THEN << "High slippage" >>
    ELSE IF cost < FMul(usdc_size, F099) THEN << "Insufficient liquidity" >>
    ELSE << >>

\* The warning list of analyze_book.
Warnings(slippage, cost, usdc_size) ==
    (IF slippage > cfg.slippage_block THEN << "BLOCKED" >>
     ELSE IF slippage > cfg.slippage_warn THEN << "High slippage" >>
     ELSE << >>)
    \o (IF cost < FMul(usdc_size, F099) THEN << "Insufficient liquidity" >>
        ELSE << >>)

\* Mutant of BookFailed: the error envelope is not looked at.
BookFailed_EmptyOnly(response) == response = << >>

\* not book or book.get("error"): an empty answer or an error envelope.
BookFailed(response) ==
    response = << >> \/ ("error" \in DOMAIN response /\ response.error # "")

\* analyze_book, given the answer fetch_book got.
analyze_book(response, usdc_size) ==
    IF BookFailed(response)
    THEN [kind |-> "err", err |-> "CLOB error"]
    ELSE
    LET asks == Get(response, "asks", << >>)
        bids == Get(response, "bids", << >>)
    IN  IF \/ (asks # << >> /\ "price" \notin DOMAIN asks[1])
           \/ (bids # << >> /\ "price" \notin DOMAIN bids[1])
           \/ ~Subscriptable(asks, "price")
           \/ ~Subscriptable(asks, "size")
        THEN [kind |-> "raise", err |-> "KeyError"]
        ELSE
        LET best_ask  == IF asks # << >> THEN Some(asks[1].price) ELSE None
            best_bid  == IF bids # << >> THEN Some(bids[1].price) ELSE None
            w         == walk_book(asks, usdc_size)
            shares    == w[1]
            cost      == w[2]
            avg_price == IF shares > 0 THEN Some(FDiv(cost, shares)) ELSE None
            slippage  == Slippage(best_ask, avg_price)
        IN  [kind         |-> "ok",
             best_ask     |-> best_ask,
             best_bid     |-> best_bid,
             ask_depth    |-> RoundDec(AskDepth(asks), 2),
             shares       |-> RoundDec(shares, 4),
             actual_cost  |-> RoundDec(cost, 4),
             avg_price    |-> IF Truthy(avg_price)
                              THEN Some(RoundDec(avg_price[1], 4)) ELSE None,
             slippage_pct |-> slippage,
             warnings     |-> Warnings(slippage, cost, usdc_size),
             blocked      |-> slippage > cfg.slippage_block]

(***************************************************************************)
(* Inputs                                                                  *)
(***************************************************************************)

\* The time discover() reads from the clock, in seconds.
Clock == 1000

\* k/128 as a price, k whole shares, k whole USDC.
Price(k) == k * (Unit \div 128)

Shares(k) == k * Unit

Usdc(k) == k * Unit

FillableLevels ==
    { [price |-> Price(p), size |-> Shares(s)] : p \in {71, 77, 103}, s \in {3, 5} }

\* Levels walk_book skips: a negative price, an empty size, no price at all.
SkippedLevels ==
    { [price |-> -Price(71), size |-> Shares(5)],
      [price |-> Price(77), size |-> 0],
      [size |-> Shares(3)] }

SeqsUpTo(S, n) == UNION { [1..k -> S] : k \in 0..n }

Budgets == { Usdc(2), Usdc(5), Usdc(7), Usdc(14) }

DefaultCfg ==
    [default_size |-> Usdc(25), order_type |-> "GTC", slippage_warn |-> 300,
     slippage_block |-> 500, min_time_remaining |-> 30]

NoArgs ==
    [config |-> FALSE, orders |-> FALSE, cancel |-> None, live |-> FALSE,
     book |-> FALSE, force |-> FALSE, side |-> "BUY", type |-> None,
     price |-> None, size |-> None]

(***************************************************************************)
(* run(): one invocation of the command line                               *)
(***************************************************************************)

Flags ==
    [config : BOOLEAN, orders : BOOLEAN, cancel : {None, Some("0x9f3a")},
     live : BOOLEAN, book : BOOLEAN, force : BOOLEAN, side : {"BUY", "SELL"},
     type : {None, Some("GTC"), Some("FOK")},
     price : {None, Some(0), Some(Price(70))},
     size : {None, Some(Usdc(5))}]

\* The defaults, and a configuration file that sets FOK orders of 8 USDC and
\* a minimum of 60 seconds.
RunCfgs ==
    { DefaultCfg,
      [DefaultCfg EXCEPT !.order_type = "FOK", !.default_size = Usdc(8),
                         !.min_time_remaining = 60] }

\* A Bitcoin 5-minute market as the Gamma API lists it.
BtcMarket(end, ids) ==
    [question |-> "Bitcoin Price 5 Min Up or Down", endDate |-> end,
     clobTokenIds |-> [form |-> "list", v |-> ids]]

\* What the listings query may answer during a run.
RunListings ==
    { [error |-> "HTTP Error 502"],
      [list |-> << >>],
      [list |-> << BtcMarket(Some(1010), << "71321045679", "52114319501" >>) >>],
      [list |-> << BtcMarket(Some(1045), << "71321045679", "52114319501" >>) >>],
      [list |-> << BtcMarket(None, << "71321045679", "52114319501" >>) >>],
      [list |-> << BtcMarket(Some(1045), << "71321045679" >>) >>],
      [list |-> << [question |-> "Bitcoin Price 5 Min Up or Down",
                    clobTokenIds |-> [form |-> "json_number", v |-> << >>]] >>] }

\* What the book query may answer during a run: errors, an empty book, a
\* thin one, a deep flat one, a steep one in either order, a level without
\* a price.
RunBooks ==
    { [error |-> "HTTP Error 500"],
      << >>,
      [asks |-> << >>, bids |-> << >>],
      [asks |-> << [price |-> Price(64), size |-> Shares(4)] >>,
       bids |-> << [price |-> Price(60), size |-> Shares(2)] >>],
      [asks |-> << [price |-> Price(64), size |-> Shares(64)] >>, bids |-> << >>],
      [asks |-> << [price |-> Price(64), size |-> Shares(2)],
                   [price |-> Price(96), size |-> Shares(64)] >>, bids |-> << >>],
      [asks |-> << [price |-> Price(96), size |-> Shares(64)],
                   [price |-> Price(64), size |-> Shares(2)] >>, bids |-> << >>],
      [asks |-> << [size |-> Shares(4)] >>, bids |-> << >>] }

Init ==
    /\ args \in Flags
    /\ cfg \in RunCfgs
    /\ pc = "start"
    /\ calls = << >>
    /\ listing = [list |-> << >>]
    /\ now = 0
    /\ market = None
    /\ book = << >>
    /\ usdc = 0
    /\ walked = None
    /\ est = None
    /\ outcome = ""

\* (args.type or cfg["order_type"]).upper()
order_type == IF args.type # None THEN args.type[1] ELSE cfg.order_type

\* args.size or cfg["default_size"]
size == IF Truthy(args.size) THEN args.size[1] ELSE cfg.default_size

\* Mutant of WindowTooShort: --force overrides the window gate.
WindowTooShort_UnlessForced(secs) == secs < cfg.min_time_remaining /\ ~args.force

\* if secs < min_t: refuse.
WindowTooShort(secs) == secs < cfg.min_time_remaining

\* Mutant of SlippageBlocked: the flag is read the wrong way round.
SlippageBlocked_FlagInverted(priced) == priced.blocked /\ args.force

\* if book["blocked"] and not args.force: refuse.
SlippageBlocked(priced) == priced.blocked /\ ~args.force

\* if order_type == "GTC" and not args.price: refuse.
GtcNeedsPrice == order_type = "GTC" /\ ~Truthy(args.price)

\* Mutant of DryRun: --force also counts as --live.
DryRun_UnlessForced == ~args.live /\ ~args.force

\* if not args.live: dry run.
DryRun == ~args.live

\* The calls of Phase 3 once the client exists: one order.
Submission == << "get_client", IF order_type = "GTC" THEN "place_gtc" ELSE "place_fok" >>

\* if args.config: print the configuration and return.
ShowConfig ==
    /\ pc = "start"
    /\ args.config
    /\ pc' = "done"
    /\ outcome' = "config shown"
    /\ UNCHANGED << args, cfg, calls, listing, now, market, book, usdc, walked, est >>

\* if args.orders: get_client(), which may exit, then list_orders.
ListOrders ==
    /\ pc = "start"
    /\ ~args.config /\ args.orders
    /\ pc' = "done"
    /\ \E client_ok \in BOOLEAN, listed \in BOOLEAN :
          IF ~client_ok
          THEN calls' = Append(calls, "get_client") /\ outcome' = "exit 1"
          ELSE /\ calls' = calls \o << "get_client", "get_orders" >>
               /\ outcome' = IF listed THEN "orders listed" ELSE "orders error"
    /\ UNCHANGED << args, cfg, listing, now, market, book, usdc, walked, est >>

\* if args.cancel: get_client(), which may exit, then cancel_order.
CancelOrder ==
    /\ pc = "start"
    /\ ~args.config /\ ~args.orders /\ args.cancel # None
    /\ pc' = "done"
    /\ \E client_ok \in BOOLEAN, cancelled \in BOOLEAN :
          IF ~client_ok
          THEN calls' = Append(calls, "get_client") /\ outcome' = "exit 1"
          ELSE /\ calls' = calls \o << "get_client", "cancel" >>
               /\ outcome' = IF cancelled THEN "cancelled" ELSE "cancel failed"
    /\ UNCHANGED << args, cfg, listing, now, market, book, usdc, walked, est >>

\* Phase 1: discover(), then the window gate.
DiscoverMarket ==
    /\ pc = "start"
    /\ ~args.config /\ ~args.orders /\ args.cancel = None
    /\ \E answer \in RunListings :
          LET found == discover(answer, Clock)
          IN  /\ listing' = answer
              /\ now' = Clock
              /\ calls' = Append(calls, "discover")
              /\ market' = Some(found)
              /\ IF found.kind = "raise"
                  THEN pc' = "done" /\ outcome' = "uncaught exception"
                  ELSE IF found.kind = "err"
                  THEN pc' = "done" /\ outcome' = "discovery failed"
                  ELSE IF WindowTooShort(found.seconds_remaining)
                  THEN pc' = "done" /\ outcome' = "window too short"
                  ELSE pc' = "book" /\ outcome' = ""
    /\ UNCHANGED << args, cfg, book, usdc, walked, est >>

\* Phase 2: analyze_book, the slippage gate, and the returns that precede
\* the order: --book, GTC without --price, no --live.
PriceOrder ==
    /\ pc = "book"
    /\ \E answer \in RunBooks :
          LET priced == analyze_book(answer, size)
          IN  /\ book' = answer
              /\ usdc' = size
              /\ calls' = Append(calls, "fetch_book")
              /\ est' = Some(priced)
              /\ IF priced.kind = "raise"
                  THEN pc' = "done" /\ outcome' = "uncaught exception"
                  ELSE IF priced.kind = "err"
                  THEN pc' = "done" /\ outcome' = "book failed"
                  ELSE IF SlippageBlocked(priced)
                  THEN pc' = "done" /\ outcome' = "slippage blocked"
                  ELSE IF args.book
                  THEN pc' = "done" /\ outcome' = "book shown"
                  ELSE IF GtcNeedsPrice
                  THEN pc' = "done" /\ outcome' = "GTC needs price"
                  ELSE IF DryRun
                  THEN pc' = "done" /\ outcome' = "dry run"
                  ELSE pc' = "place" /\ outcome' = ""
    /\ UNCHANGED << args, cfg, listing, now, market, walked >>

\* Phase 3: get_client(), which may exit, then place_gtc or place_fok; the
\* order raises or is answered with a status.
PlaceOrder ==
    /\ pc = "place"
    /\ pc' = "done"
    /\ \E client_ok \in BOOLEAN,
          answer \in {"raised", "MATCHED", "LIVE", "UNKNOWN"} :
          IF ~client_ok
          THEN calls' = Append(calls, "get_client") /\ outcome' = "exit 1"
          ELSE /\ calls' = calls \o Submission
               /\ outcome' = IF answer = "raised" THEN "order failed"
                             ELSE IF answer \in {"MATCHED", "LIVE"} THEN "order placed"
                             ELSE "unexpected status"
    /\ UNCHANGED << args, cfg, listing, now, market, book, usdc, walked, est >>

Next ==
    \/ ShowConfig
    \/ ListOrders
    \/ CancelOrder
    \/ DiscoverMarket
    \/ PriceOrder
    \/ PlaceOrder

Spec == Init /\ [][Next]_vars

(***************************************************************************)
(* walk_book on its own                                                    *)
(***************************************************************************)

InitWalk ==
    /\ book \in { [asks |-> a, bids |-> << >>] :
                    a \in SeqsUpTo(FillableLevels \cup SkippedLevels, MaxLevels) }
    /\ usdc \in Budgets
    /\ args = NoArgs
    /\ cfg = DefaultCfg
    /\ pc = "input"
    /\ calls = << >>
    /\ listing = [list |-> << >>]
    /\ now = 0
    /\ market = None
    /\ walked = None
    /\ est = None
    /\ outcome = ""

WalkBook ==
    /\ pc = "input"
    /\ walked' = Some(walk_book(book.asks, usdc))
    /\ pc' = "walked"
    /\ UNCHANGED << args, cfg, calls, listing, now, market, book, usdc, est, outcome >>

SpecWalk == InitWalk /\ [][WalkBook]_vars

(***************************************************************************)
(* analyze_book on its own                                                 *)
(***************************************************************************)

\* Prices and sizes of the snapshots: 0.5, 0.625 and 0.75; 2 and 4 shares.
BookLevels ==
    { [price |-> Price(p), size |-> Shares(s)] : p \in {64, 80, 96}, s \in {2, 4} }

BookBids == { << >>, << [price |-> Price(64), size |-> Shares(2)] >> }

BookResponses ==
    { [error |-> "HTTP Error 500"], << >> }
    \cup { [asks |-> a, bids |-> b] :
              a \in SeqsUpTo(BookLevels \cup SkippedLevels, MaxLevels), b \in BookBids }

BookBudgets == { Usdc(2), Usdc(5), Usdc(8) }

\* The default thresholds, and a configuration that warns later than it blocks.
BookCfgs == { DefaultCfg, [DefaultCfg EXCEPT !.slippage_warn = 800, !.slippage_block = 400] }

InitBook ==
    /\ book \in BookResponses
    /\ usdc \in BookBudgets
    /\ cfg \in BookCfgs
    /\ args = NoArgs
    /\ pc = "input"
    /\ calls = << >>
    /\ listing = [list |-> << >>]
    /\ now = 0
    /\ market = None
    /\ walked = None
    /\ est = None
    /\ outcome = ""

AnalyzeBook ==
    /\ pc = "input"
    /\ est' = Some(analyze_book(book, usdc))
    /\ pc' = "analyzed"
    /\ UNCHANGED << args, cfg, calls, listing, now, market, book, usdc, walked, outcome >>

SpecBook == InitBook /\ [][AnalyzeBook]_vars

(***************************************************************************)
(* discover on its own                                                     *)
(***************************************************************************)

\* Most markets in one listing drawn as an input.
MaxMarkets == 2

IdLists ==
    { << >>, << "71321045679" >>, << "71321045679", "52114319501" >>,
      << "", "52114319501" >>, << "71321045679", "" >> }

IdFields ==
    { [form |-> "list", v |-> v] : v \in IdLists }
    \cup { [form |-> "json_list", v |-> << "71321045679", "52114319501" >>],
           [form |-> "json_invalid", v |-> << >>],
           [form |-> "json_number", v |-> << >>] }

OutcomeLists ==
    { << >>,
      << [clobTokenId |-> "71321045679"] >>,
      << [clobTokenId |-> "71321045679"], [clobTokenId |-> "52114319501"] >>,
      << [clobTokenId |-> "71321045679"], [name |-> "Down"] >> }

EndDates == { None, Some(Clock + 10), Some(Clock + 45) }

Markets ==
    { [question |-> "Bitcoin Price 5 Min Up or Down", endDate |-> e,
       clobTokenIds |-> ids, outcomes |-> o] :
          e \in EndDates, ids \in IdFields, o \in OutcomeLists }
    \cup { [title |-> "BITCOIN PRICE 5-minute", endDate |-> Some(Clock - 20),
            outcomes |-> o] : o \in OutcomeLists }
    \cup { [question |-> "Ethereum Price 5 Min", endDate |-> Some(Clock + 10),
            clobTokenIds |-> [form |-> "list", v |-> << "88", "99" >>]] }

Listings ==
    { [error |-> "HTTP Error 502"], [error |-> ""] }
    \cup { [list |-> l] : l \in SeqsUpTo(Markets, MaxMarkets) }

InitDiscover ==
    /\ listing \in Listings
    /\ now = Clock
    /\ args = NoArgs
    /\ cfg = DefaultCfg
    /\ pc = "input"
    /\ calls = << >>
    /\ market = None
    /\ book = << >>
    /\ usdc = 0
    /\ walked = None
    /\ est = None
    /\ outcome = ""

\* discover() applied to a listing.
Discover ==
    /\ pc = "input"
    /\ market' = Some(discover(listing, now))
    /\ pc' = "discovered"
    /\ UNCHANGED << args, cfg, calls, listing, now, book, usdc, walked, est, outcome >>

SpecDiscover == InitDiscover /\ [][Discover]_vars

(***************************************************************************)
(* Reference quantities for the claims about walk_book                     *)
(***************************************************************************)

\* A level walk_book fills from: positive price and positive size.
Fillable(order) == Get(order, "price", 0) > 0 /\ Get(order, "size", 0) > 0

FillableCount(asks) == Cardinality({ i \in 1..Len(asks) : Fillable(asks[i]) })

\* The sum, without rounding, of the notionals price * size of the fillable
\* levels (each notional the float the program computes).
RECURSIVE NotionalFrom(_, _)
NotionalFrom(asks, i) ==
    IF i > Len(asks) THEN 0
    ELSE (IF Fillable(asks[i]) THEN FMul(asks[i].price, asks[i].size) ELSE 0)
         + NotionalFrom(asks, i + 1)

TotalNotional(asks) == NotionalFrom(asks, 1)

\* The exact sum of the sizes of the fillable levels.
RECURSIVE SizeFrom(_, _)
SizeFrom(asks, i) ==
    IF i > Len(asks) THEN 0
    ELSE (IF Fillable(asks[i]) THEN asks[i].size ELSE 0) + SizeFrom(asks, i + 1)

TotalSize(asks) == SizeFrom(asks, 1)

\* x is y up to the rounding of n + 1 floating-point operations: a relative
\* error of at most 2 (n + 1) 2^-MantBits.
Within(x, y, n) == Abs(x - y) <= 2 * (n + 1) * (y \div (2 ^ MantBits))

\* Every reordering of a ladder.
Reorderings(asks) ==
    { [i \in 1..Len(asks) |-> asks[f[i]]] : f \in Permutations(1..Len(asks)) }

\* No two fillable levels share a price and differ in size.
NoTiedLevels(asks) ==
    \A i, j \in 1..Len(asks) :
        (Fillable(asks[i]) /\ Fillable(asks[j]) /\ asks[i].price = asks[j].price)
            => asks[i].size = asks[j].size

\* C4 as stated: cost = budget when the budget is at most the total notional,
\* cost and shares are the full sums otherwise, and cost never exceeds the
\* budget.
C4_ExactFill ==
    walked # None =>
        LET shares == walked[1][1]
            cost   == walked[1][2]
            total  == TotalNotional(book.asks)
        IN  /\ (usdc <= total => cost = usdc)
            /\ (usdc > total => cost = total /\ shares = TotalSize(book.asks))
            /\ cost <= usdc

\* C4 amended: the same amounts up to floating-point rounding: with n
\* fillable levels the cost is within 2 (n + 1) 2^-MantBits (relative) of the
\* budget, or of the total notional when the budget exceeds it, the shares
\* are then within that error of the total size, and the cost exceeds the
\* budget by no more than that error.
C4_FillWithinRounding ==
    walked # None =>
        LET shares == walked[1][1]
            cost   == walked[1][2]
            n      == FillableCount(book.asks)
            total  == TotalNotional(book.asks)
        IN  /\ (usdc <= total => Within(cost, usdc, n))
            /\ (usdc > total =>
                    /\ Within(cost, total, n)
                    /\ Within(shares, TotalSize(book.asks), n))
            /\ cost - usdc <= 2 * (n + 1) * (usdc \div (2 ^ MantBits))

\* A partial fill that rounded: the budget is within the depth, and the
\* returned cost is not the budget.
C4_Witness ==
    /\ walked # None
    /\ FillableCount(book.asks) >= 2
    /\ usdc <= TotalNotional(book.asks)
    /\ walked[1][2] # usdc

\* C5 as stated: every reordering of the ladder gives the same (shares, cost).
C5_OrderInvariant ==
    walked # None =>
        \A p \in Reorderings(book.asks) : walk_book(p, usdc) = walked[1]

\* C5 amended: every reordering gives the same (shares, cost) when no two
\* fillable levels share a price and differ in size; when some do, the
\* results agree up to floating-point rounding.
C5_OrderInvariantUpToRounding ==
    walked # None =>
        \A p \in Reorderings(book.asks) :
            LET other == walk_book(p, usdc)
                n     == 2 * FillableCount(book.asks) + 1
            IN  IF NoTiedLevels(book.asks) THEN other = walked[1]
                ELSE /\ Within(other[1], walked[1][1], n)
                     /\ Within(other[2], walked[1][2], n)

\* A three-level ladder with a skipped level and fillable levels out of
\* price order, walked.
C5_Witness ==
    /\ walked # None
    /\ Len(book.asks) = 3
    /\ \E i \in 1..3 : ~Fillable(book.asks[i])
    /\ \E i, j \in 1..3 :
          /\ i < j /\ Fillable(book.asks[i]) /\ Fillable(book.asks[j])
          /\ book.asks[i].price > book.asks[j].price
    /\ walked[1][1] > 0

(***************************************************************************)
(* The claims about analyze_book                                           *)
(***************************************************************************)

Elems(seq) == { seq[i] : i \in 1..Len(seq) }

\* analyze_book returned a fill estimate.
Estimated == est # None /\ est[1].kind = "ok"

\* C6: for a snapshot whose ask levels all have positive price and size, in
\* whatever order they are listed, an estimate with shares > 0 has
\* avg_price >= best_ask and slippage_pct >= 0.
C6_NonNegativeSlippage ==
    (/\ Estimated
     /\ \A i \in 1..Len(book.asks) : Fillable(book.asks[i])
     /\ est[1].shares > 0)
        => /\ est[1].avg_price # None
           /\ est[1].avg_price[1] * Unit >= est[1].best_ask[1] * (10 ^ 4)
           /\ est[1].slippage_pct >= 0

\* C7: blocked is true exactly when slippage_pct > slippage_block, exactly
\* when the BLOCKED warning is listed; the high-slippage warning is listed
\* only when slippage_pct > slippage_warn and the estimate is not blocked, so
\* the two slippage warnings are never listed together.
C7_StrictThresholds ==
    Estimated =>
        LET e == est[1]
            w == Elems(e.warnings)
        IN  /\ e.blocked <=> e.slippage_pct > cfg.slippage_block
            /\ e.blocked <=> "BLOCKED" \in w
            /\ "High slippage" \in w =>
                    e.slippage_pct > cfg.slippage_warn /\ ~e.blocked
            /\ ~("BLOCKED" \in w /\ "High slippage" \in w)

\* An estimate whose slippage is exactly the block threshold, not blocked.
C7_Witness ==
    /\ Estimated
    /\ est[1].slippage_pct = cfg.slippage_block
    /\ ~est[1].blocked
    /\ est[1].shares > 0

\* C9: the insufficient-liquidity warning is listed exactly when the cost
\* walk_book achieved is below usdc_size * 0.99, whatever the slippage
\* verdict is, and blocked follows the slippage alone; an empty ask list
\* gives shares 0, cost 0, no average price, slippage 0.0, the warning, and
\* blocked false.
C9_InsufficientLiquidityWarnsOnly ==
    Estimated =>
        LET e    == est[1]
            cost == walk_book(book.asks, usdc)[2]
            thin == "Insufficient liquidity" \in Elems(e.warnings)
        IN  /\ thin <=> cost < FMul(usdc, F099)
            /\ (thin /\ e.slippage_pct <= cfg.slippage_block) => ~e.blocked
            /\ book.asks = << >> =>
                    /\ e.shares = 0 /\ e.actual_cost = 0
                    /\ e.avg_price = None /\ e.slippage_pct = 0
                    /\ thin /\ ~e.blocked

\* An empty ask list, analysed.
C9_Witness ==
    /\ Estimated
    /\ book.asks = << >>
    /\ est[1].warnings = << "Insufficient liquidity" >>

(***************************************************************************)
(* The claim about discover                                                *)
(***************************************************************************)

\* discover() returned a market window.
Discovered == market # None /\ market[1].kind = "ok"

\* C8: every window discover() returns has a non-empty yes_token and a
\* non-empty no_token.
C8_TwoTokenIds ==
    Discovered => market[1].yes_token # "" /\ market[1].no_token # ""

(***************************************************************************)
(* The claims about run()                                                  *)
(***************************************************************************)

\* The book query answered with an error envelope or with nothing.
BookFailedAnswer == book = << >> \/ ("error" \in DOMAIN book /\ book.error # "")

\* The invocation is on the trading path: none of --config, --orders, --cancel.
Trading == ~args.config /\ ~args.orders /\ args.cancel = None

Called(c) == c \in Elems(calls)

\* place_gtc or place_fok was called.
Submitted == Called("place_gtc") \/ Called("place_fok")

\* The discovery, book-fetch and submission calls, in the order made.
IsMainCall(c) == c \in {"discover", "fetch_book", "place_gtc", "place_fok"}

MainCalls == SelectSeq(calls, IsMainCall)

\* C1: when the discovered window has fewer seconds left than
\* min_time_remaining, the run has stopped with no book fetch, no trading
\* client and no order, whatever the flags are.
C1_WindowGate ==
    (Discovered /\ market[1].seconds_remaining < cfg.min_time_remaining)
        => /\ pc = "done"
           /\ ~Called("fetch_book")
           /\ ~Called("get_client")
           /\ ~Submitted

\* A run with --force and --live that the window gate stopped.
C1_Witness ==
    /\ Discovered
    /\ market[1].seconds_remaining < cfg.min_time_remaining
    /\ args.force /\ args.live
    /\ outcome = "window too short"

\* C2: a blocked estimate without --force ends the run before any order;
\* with --force a blocked estimate does not stop the run: unless --book, a
\* missing GTC price or the dry run ends it, it goes on to Phase 3.
C2_SlippageGate ==
    (Estimated /\ est[1].blocked) =>
        IF ~args.force
        THEN pc = "done" /\ ~Submitted /\ ~Called("get_client")
        ELSE /\ outcome # "slippage blocked"
             /\ (~args.book /\ ~GtcNeedsPrice /\ args.live)
                    => (pc = "place" \/ Called("get_client"))

\* A live run without --force that a blocked estimate stopped.
C2_Witness ==
    /\ Estimated /\ est[1].blocked
    /\ ~args.force /\ args.live /\ ~args.book
    /\ outcome = "slippage blocked"

\* C3: discovery, book fetch and submission happen at most once each and in
\* that order; the book is fetched only after discover() returned a window,
\* an order is submitted only after a book answer that is no error, and a
\* failed discovery or book fetch ends the run with no later call.
C3_CallOrder ==
    /\ Len(MainCalls) <= 3
    /\ Len(MainCalls) >= 1 => MainCalls[1] = "discover"
    /\ Len(MainCalls) >= 2 => MainCalls[2] = "fetch_book"
    /\ Len(MainCalls) >= 3 => MainCalls[3] \in {"place_gtc", "place_fok"}
    /\ Called("fetch_book") => Discovered
    /\ Submitted => ~BookFailedAnswer
    /\ (market # None /\ market[1].kind # "ok")
          => pc = "done" /\ calls = << "discover" >>
    /\ (Called("fetch_book") /\ BookFailedAnswer)
          => pc = "done" /\ calls = << "discover", "fetch_book" >>

\* A run that made all three calls.
C3_Witness == MainCalls = << "discover", "fetch_book", "place_fok" >>

\* C10: without --live, and with --book, a run on the trading path submits
\* no order and creates no trading client; a GTC order without a limit price
\* is not submitted even with --live.
C10_DryRunByDefault ==
    /\ (~args.live \/ args.book) => ~Submitted
    /\ (Trading /\ (~args.live \/ args.book)) => ~Called("get_client")
    /\ (order_type = "GTC" /\ ~Truthy(args.price)) => ~Submitted

\* A run without --live, with --force, that priced the order and stopped as
\* a dry run.
C10_Witness ==
    /\ ~args.live /\ args.force
    /\ Estimated
    /\ outcome = "dry run"

====
